---- MODULE Spec2Model ----
(***************************************************************************)
(* A model of the Speliuk spelling-correction pipeline                     *)
(* (src/speliuk/correct.py) and of the evaluation script                   *)
(* (src/scripts/evaluate.py).                                              *)
(*                                                                         *)
(* Strings are sequences of one-character strings, so that character       *)
(* offsets, str.replace, str.lower and ' '.join are computed as Python     *)
(* computes them.  A document is a sequence of tokens, each with its text, *)
(* whether a space follows it, and its entity type.  Token, span and       *)
(* character indices are 0-based and half-open, as in the source.          *)
(*                                                                         *)
(* The libraries the code calls (spaCy, symspellpy, kenlm, ua_gec,         *)
(* argparse) are modelled by what they return to the code: the answers of  *)
(* the pretrained models are inputs, drawn from small sets.                *)
(***************************************************************************)
EXTENDS Integers, Sequences, FiniteSets, TLC

VARIABLES
    \* get_masked_text / top_candidate, one call
    doc,            \* the Doc: sequence of tokens [text, ent_type]
    span,           \* the Span: [start, end) in tokens
    masked_text,    \* the result of get_masked_text
    token,          \* top_candidate's token argument
    suggestions,    \* the terms sym_spell.lookup returned, in lookup order
    candidates,     \* the list handed to _kenlm_rerank
    texts,          \* candidate -> the text given to kenlm_scorer.score
    scores,         \* candidate -> the score it got
    top,            \* what top_candidate returned
    pc,             \* position of the call
    \* correct(text) and CorrectionPipe.__call__(doc)
    nlp_doc,        \* self.nlp(text): tokens [text, ws, ent_type]
    detected,       \* error_detection_pipe(text).ents: [start_char, end_char]
    error_spans,    \* spacy_doc.spans["speliuk_errors"]
    idx,            \* index of the span the loop of correct() is at
    annotated_text, \* the AnnotatedText: [text, annotations]
    chosen,         \* what top_candidate returned for each surviving span
    correction,     \* the Correction that correct() returned
    cpc,            \* position of correct()
    caller_doc,     \* the tokens of the document given to the component
    doc_spans,      \* doc.spans["speliuk_errors"] of that document
    speliuk_corrected, \* doc._.speliuk_corrected
    ppc,            \* position of CorrectionPipe.__call__
    \* scripts/evaluate.py
    argv,           \* the command line after the script's name
    args,           \* what parser.parse_args() returned
    ran,            \* the commands run so far
    epc             \* position of main()

callVars == <<doc, span, masked_text, token, suggestions, candidates, texts,
              scores, top, pc>>

correctVars == <<nlp_doc, detected, error_spans, idx, annotated_text, chosen,
                 correction, cpc>>

pipeVars == <<caller_doc, doc_spans, speliuk_corrected, ppc>>

evalVars == <<argv, args, ran, epc>>

vars == <<callVars, correctVars, pipeVars, evalVars>>

----------------------------------------------------------------------------
(* Bounds of the model *)

\* longest document of the masking specification, in tokens
MaxDocLen == 8
\* longest span, in tokens
MaxSpanLen == 2
\* longest document of the re-ranking specification, in tokens
MaxCtxLen == 3
\* longest answer of the dictionary lookup in the candidate specification
MaxSugg == 6
\* longest answer of the dictionary lookup in the re-ranking specification
MaxRankSugg == 2
\* the language model's scores are -MaxScore..0
MaxScore == 1
\* longest text given to correct(), in tokens
MaxTokens == 2
\* most ranges the error-detection tagger reports for one text
MaxErrs == 2
\* longest command line of the evaluation script, in arguments
MaxArgs == 4

----------------------------------------------------------------------------
(* Python strings and sequences *)

Min(a, b) == IF a < b THEN a ELSE b
Max(a, b) == IF a > b THEN a ELSE b

\* seq[a:b] of Python (and of spaCy's Doc): negative indices count from the
\* end, out-of-range indices are clamped
PySlice(s, a, b) ==
    LET n  == Len(s)
        lo == IF a < 0 THEN Max(a + n, 0) ELSE Min(a, n)
        hi == IF b < 0 THEN Max(b + n, 0) ELSE Min(b, n)
    IN  IF lo >= hi THEN << >> ELSE SubSeq(s, lo + 1, hi)

\* sep.join(strs)
RECURSIVE Join(_, _)
Join(strs, sep) ==
    IF strs = << >> THEN << >>
    ELSE IF Len(strs) = 1 THEN strs[1]
    ELSE strs[1] \o sep \o Join(Tail(strs), sep)

SPACE == <<" ">>

\* str.split(' ') without the empty pieces: the space-separated tokens of s
RECURSIVE SplitAcc(_, _, _)
SplitAcc(s, cur, acc) ==
    IF s = << >> THEN (IF cur = << >> THEN acc ELSE Append(acc, cur))
    ELSE IF Head(s) = " "
         THEN SplitAcc(Tail(s), << >>, IF cur = << >> THEN acc ELSE Append(acc, cur))
         ELSE SplitAcc(Tail(s), Append(cur, Head(s)), acc)

Words(s) == SplitAcc(s, << >>, << >>)

\* str.lower(), on the letters of the model's alphabet
LowerChar(c) ==
    CASE c = "A" -> "a"
      [] c = "B" -> "b"
      [] c = "C" -> "c"
      [] OTHER   -> c

Lower(s) == [i \in 1..Len(s) |-> LowerChar(s[i])]

IsPrefix(p, s) == Len(p) <= Len(s) /\ SubSeq(s, 1, Len(p)) = p

\* s.replace(old, new): every non-overlapping occurrence of old, left to
\* right; the replacement text is not scanned again
RECURSIVE Replace(_, _, _)
Replace(s, old, new) ==
    IF s = << >> THEN << >>
    ELSE IF IsPrefix(old, s)
         THEN new \o Replace(SubSeq(s, Len(old) + 1, Len(s)), old, new)
         ELSE <<Head(s)>> \o Replace(Tail(s), old, new)

\* x in seq
InSeq(x, s) == \E i \in 1..Len(s) : s[i] = x

Range(s) == {s[i] : i \in 1..Len(s)}

\* list(dict.fromkeys(seq)): the keys of a dict filled in seq's order
RECURSIVE DictKeys(_)
DictKeys(s) ==
    IF s = << >> THEN << >>
    ELSE LET front == DictKeys(SubSeq(s, 1, Len(s) - 1))
             last  == s[Len(s)]
         IN  IF InSeq(last, front) THEN front ELSE Append(front, last)

\* sorted(keys, key=score, reverse=True): stable, so equal scores keep the
\* order they had in keys
RECURSIVE SortedDesc(_, _)
SortedDesc(keys, sc) ==
    IF keys = << >> THEN << >>
    ELSE LET best == CHOOSE i \in 1..Len(keys) :
                        /\ \A j \in 1..Len(keys) : sc[keys[j]] <= sc[keys[i]]
                        /\ \A j \in 1..(i - 1) : sc[keys[j]] < sc[keys[i]]
             rest == [j \in 1..(Len(keys) - 1) |->
                        IF j < best THEN keys[j] ELSE keys[j + 1]]
         IN  <<keys[best]>> \o SortedDesc(rest, sc)

----------------------------------------------------------------------------
(* Speliuk: constants *)

MASK_TOKEN == <<"<", "m", "a", "s", "k", ">">>

\* get_masked_text's default window
WINDOW == 5

\* _symspell_candidates keeps this many suggestions
MAX_CANDIDATES == 5

----------------------------------------------------------------------------
(* spaCy Doc and Span: text, character offsets, char_span *)

\* the number of characters before token k (0-based); a token's ws says
\* whether a space follows it
RECURSIVE TokStart(_, _)
TokStart(d, k) ==
    IF k = 0 THEN 0
    ELSE TokStart(d, k - 1) + Len(d[k].text) + (IF d[k].ws THEN 1 ELSE 0)

TokEnd(d, k) == TokStart(d, k) + Len(d[k + 1].text)

\* Doc.text
RECURSIVE DocText(_)
DocText(d) ==
    IF d = << >> THEN << >>
    ELSE d[1].text \o (IF d[1].ws THEN SPACE ELSE << >>) \o DocText(Tail(d))

\* the character range of every token
Offsets(d) ==
    [k \in 1..Len(d) |-> [start_char |-> TokStart(d, k - 1), end_char |-> TokEnd(d, k - 1)]]

None == [none |-> TRUE]

\* Doc.char_span(start_idx, end_idx, label) with its default strict
\* alignment: None unless start_idx is the first character of a token and
\* end_idx is one past the last character of a token
char_span(offs, start_idx, end_idx, label) ==
    LET first == {k \in 1..Len(offs) : offs[k].start_char = start_idx}
        last  == {k \in 1..Len(offs) : offs[k].end_char = end_idx}
    IN  IF first = {} \/ last = {}
        THEN None
        ELSE [none |-> FALSE,
              start |-> (CHOOSE k \in first : TRUE) - 1,
              end |-> (CHOOSE k \in last : TRUE),
              start_char |-> start_idx, end_char |-> end_idx, label |-> label]

\* Span.text: the document's text from the span's first to its last character
SpanText(d, sp) == PySlice(DocText(d), TokStart(d, sp.start), TokEnd(d, sp.end - 1))

----------------------------------------------------------------------------
(* Speliuk.get_masked_text *)

TokenTexts(toks) == [i \in 1..Len(toks) |-> toks[i].text]

LeftStartNoClamp(sp, window) == sp.start - window

left_start(sp, window) ==
    IF sp.start - window >= 0 THEN sp.start - window ELSE 0

get_masked_text(d, sp, window) ==
    LET left_end   == sp.start
        left_text  == Join(TokenTexts(PySlice(d, left_start(sp, window), left_end)), SPACE)
        right_start == sp.end
        right_end  == sp.end + window
        right_text == Join(TokenTexts(PySlice(d, right_start, right_end)), SPACE)
    IN  left_text \o SPACE \o MASK_TOKEN \o SPACE \o right_text

----------------------------------------------------------------------------
(* Speliuk._symspell_candidates, _kenlm_rerank, top_candidate *)

\* the slice of _symspell_candidates without its [:5]
SymspellNoLimit(lookup) == lookup

\* lookup is what sym_spell.lookup(token, CLOSEST, max_edit_distance=2,
\* transfer_casing=True) returned: the suggestions' terms, in its order
_symspell_candidates(lookup) == PySlice(lookup, 0, MAX_CANDIDATES)

\* top_candidate, lines 112-114: the list handed to _kenlm_rerank
CandidateList(tok, lookup) ==
    LET cs == _symspell_candidates(lookup)
    IN  IF ~InSeq(tok, cs) THEN Append(cs, tok) ELSE cs

\* the text _kenlm_rerank gives to kenlm_scorer.score for one candidate
ScoredText(masked, candidate) == Lower(Replace(masked, MASK_TOKEN, candidate))

ScoredTexts(masked, cands) == {ScoredText(masked, c) : c \in Range(cands)}

\* _kenlm_rerank: lm is kenlm_scorer.score, a function of the scored text.
\* The result is the dict's keys in their sorted order and the dict's values.
_kenlm_rerank(masked, cands, lm) ==
    LET sc == [c \in Range(cands) |-> lm[ScoredText(masked, c)]]
    IN  [keys |-> SortedDesc(DictKeys(cands), sc), score |-> sc]

\* top_candidate without the comparison of line 118
TopNoTieRule(reranked, tok) == reranked.keys[1]

\* top_candidate, lines 116-120
TopChoice(reranked, tok) ==
    LET top_candidate == reranked.keys[1]
    IN  IF reranked.score[tok] = reranked.score[top_candidate]
        THEN tok
        ELSE top_candidate

top_candidate(masked, tok, lookup, lm) ==
    TopChoice(_kenlm_rerank(masked, CandidateList(tok, lookup), lm), tok)

----------------------------------------------------------------------------
(* Speliuk._valid_edit *)

IsDigit(c) == c \in {"0", "1", "2", "3", "4", "5", "6", "7", "8", "9"}

PER == <<"P", "E", "R">>
ORG == <<"O", "R", "G">>
GPE == <<"G", "P", "E">>
LOC == <<"L", "O", "C">>

_valid_edit(d, sp) ==
    LET text == SpanText(d, sp)
    IN  IF text # << >> /\ IsDigit(text[1])
        THEN FALSE
        ELSE LET span_type == PySlice(d, sp.start, sp.end)[1].ent_type
             IN  IF \/ IsPrefix(PER, span_type)
                    \/ span_type = GPE
                    \/ span_type = ORG
                 THEN FALSE
                 ELSE TRUE

----------------------------------------------------------------------------
(* ua_gec.AnnotatedText, as correct() uses it.  Its constructor reads the  *)
(* library's annotation syntax, {source=>target}, in the text it is given: *)
(* a match is "{", the longest run of characters other than "{" that is    *)
(* followed by "=>", the shortest run of characters that is followed by    *)
(* "}", and that "}".  (The syntax also has a meta part after ":::" and    *)
(* alternatives separated by "|"; the model's alphabet has neither, nor    *)
(* a newline.)                                                             *)

Annotation(start, end, source_text, suggs) ==
    [start |-> start, end |-> end, source_text |-> source_text, suggestions |-> suggs]

\* "=>" at position j of s (positions are 1-based here)
ArrowAt(s, j) == j + 1 <= Len(s) /\ s[j] = "=" /\ s[j + 1] = ">"

\* the "}" that can end a match whose "=>" is at j
Closers(s, j) == {k \in (j + 2)..Len(s) : s[k] = "}"}

\* the "=>" that a match starting with the "{" at p can use
Arrows(s, p) ==
    {j \in (p + 1)..Len(s) :
        /\ ArrowAt(s, j)
        /\ \A k \in (p + 1)..(j - 1) : s[k] # "{"
        /\ Closers(s, j) # {}}

MatchStarts(s, from) == {p \in from..Len(s) : s[p] = "{" /\ Arrows(s, p) # {}}

SetMin(S) == CHOOSE x \in S : \A y \in S : x <= y
SetMax(S) == CHOOSE x \in S : \A y \in S : y <= x

\* the leftmost match at or after from: the source is matched greedily,
\* the target lazily
FirstMatch(s, from) ==
    LET open  == SetMin(MatchStarts(s, from))
        arrow == SetMax(Arrows(s, open))
        close == SetMin(Closers(s, arrow))
    IN  [open |-> open, close |-> close,
         source |-> SubSeq(s, open + 1, arrow - 1),
         target |-> SubSeq(s, arrow + 2, close - 1)]

\* AnnotatedText._parse
RECURSIVE ParseAnnotations(_, _, _)
ParseAnnotations(s, from, amend) ==
    IF MatchStarts(s, from) = {} THEN << >>
    ELSE LET m     == FirstMatch(s, from)
             start == (m.open - 1) - amend
         IN  <<Annotation(start, start + Len(m.source), m.source, <<m.target>>)>>
             \o ParseAnnotations(s, m.close + 1,
                                 amend + (m.close - m.open + 1) - Len(m.source))

\* ANNOTATION_PATTERN.sub(r"\1", text)
RECURSIVE OriginalText(_, _)
OriginalText(s, from) ==
    IF MatchStarts(s, from) = {} THEN SubSeq(s, from, Len(s))
    ELSE LET m == FirstMatch(s, from)
         IN  SubSeq(s, from, m.open - 1) \o m.source \o OriginalText(s, m.close + 1)

\* AnnotatedText(text)
AnnotatedText(text) ==
    [text |-> OriginalText(text, 1), annotations |-> ParseAnnotations(text, 1, 0)]

\* AnnotatedText._get_overlaps: the annotations that share characters with
\* [start, end), or lie strictly inside it, or strictly contain it
Overlaps(at, start, end) ==
    {k \in 1..Len(at.annotations) :
        LET a == at.annotations[k]
        IN  \/ Min(end, a.end) - Max(start, a.start) > 0
            \/ start < a.start /\ a.start <= a.end /\ a.end < end
            \/ a.start < start /\ start <= end /\ end < a.end}

\* AnnotatedText.annotate(start, end, correct_value) raises OverlapError
AnnotateRaises(at, start, end) == Overlaps(at, start, end) # {}

\* AnnotatedText.annotate(start, end, correct_value)
annotate(at, start, end, correct_value) ==
    [at EXCEPT !.annotations =
        Append(@, Annotation(start, end, PySlice(at.text, start, end), <<correct_value>>))]

\* the annotations not yet applied, the one that starts last first
RECURSIVE ApplyAnnotations(_, _)
ApplyAnnotations(text, anns) ==
    IF anns = {} THEN text
    ELSE LET a == CHOOSE x \in anns : \A y \in anns : y.start <= x.start
             repl == IF a.suggestions = << >> THEN a.source_text ELSE a.suggestions[1]
         IN  ApplyAnnotations(
                 PySlice(text, 0, a.start) \o repl \o PySlice(text, a.end, Len(text)),
                 anns \ {a})

\* AnnotatedText.get_corrected_text()
get_corrected_text(at) == ApplyAnnotations(at.text, Range(at.annotations))

\* AnnotatedText.get_annotations()
get_annotations(at) == at.annotations

----------------------------------------------------------------------------
(* Inputs *)

Tok(t, e) == [text |-> t, ws |-> TRUE, ent_type |-> e]

RECURSIVE SeqsUpTo(_, _)
SeqsUpTo(S, n) ==
    IF n = 0 THEN {<< >>}
    ELSE LET shorter == SeqsUpTo(S, n - 1)
         IN  shorter \cup {Append(s, x) : s \in {q \in shorter : Len(q) = n - 1}, x \in S}

SpansOf(d) ==
    {[start |-> s, end |-> e] :
        s \in 0..(Len(d) - 1), e \in 1..Len(d)} \cap
    {sp \in [start : 0..Len(d), end : 0..Len(d)] :
        sp.start < sp.end /\ sp.end - sp.start <= MaxSpanLen}

MaskVocab == {Tok(<<"a">>, << >>), Tok(<<"b">>, << >>)}

\* the evaluation script is not running
NoEval ==
    /\ argv = << >>
    /\ args = << >>
    /\ ran = << >>
    /\ epc = "idle"

\* no correct() and no component call is under way
NoCorrection ==
    /\ nlp_doc = << >>
    /\ detected = << >>
    /\ error_spans = << >>
    /\ idx = 0
    /\ annotated_text = << >>
    /\ chosen = << >>
    /\ correction = << >>
    /\ cpc = "idle"
    /\ caller_doc = << >>
    /\ doc_spans = << >>
    /\ speliuk_corrected = << >>
    /\ ppc = "idle"

InitMask ==
    /\ doc \in SeqsUpTo(MaskVocab, MaxDocLen) \ {<< >>}
    /\ span \in SpansOf(doc)
    /\ masked_text = << >>
    /\ pc = "start"
    /\ token = << >>
    /\ suggestions = << >>
    /\ candidates = << >>
    /\ texts = << >>
    /\ scores = << >>
    /\ top = << >>
    /\ NoCorrection
    /\ NoEval

GetMaskedText ==
    /\ pc = "start"
    /\ masked_text' = get_masked_text(doc, span, WINDOW)
    /\ pc' = "masked"
    /\ UNCHANGED <<doc, span, token, suggestions, candidates, texts, scores, top>>
    /\ UNCHANGED <<correctVars, pipeVars, evalVars>>

NextMask == GetMaskedText

SpecMask == InitMask /\ [][NextMask]_vars

\* sequences over S without repetition, of length at most n
RECURSIVE InjSeqsUpTo(_, _)
InjSeqsUpTo(S, n) ==
    IF n = 0 THEN {<< >>}
    ELSE LET shorter == InjSeqsUpTo(S, n - 1)
         IN  shorter \cup
             UNION {{Append(s, x) : x \in S \ Range(s)} :
                        s \in {q \in shorter : Len(q) = n - 1}}

Scores == (0 - MaxScore)..0

\* top_candidate, lines 112-114
BuildCandidates ==
    /\ pc = "masked"
    /\ token' = SpanText(doc, span)
    /\ candidates' = CandidateList(token', suggestions)
    /\ pc' = "candidates"
    /\ UNCHANGED <<doc, span, masked_text, suggestions, texts, scores, top>>
    /\ UNCHANGED <<correctVars, pipeVars, evalVars>>

\* top_candidate, lines 115-120
RerankAndChoose ==
    /\ pc = "candidates"
    /\ \E lm \in [ScoredTexts(masked_text, candidates) -> Scores] :
          LET reranked == _kenlm_rerank(masked_text, candidates, lm)
          IN  /\ texts' = [c \in Range(candidates) |-> ScoredText(masked_text, c)]
              /\ scores' = reranked.score
              /\ top' = TopChoice(reranked, token)
    /\ pc' = "chosen"
    /\ UNCHANGED <<doc, span, masked_text, token, suggestions, candidates>>
    /\ UNCHANGED <<correctVars, pipeVars, evalVars>>

(* the candidate list: one-token documents, long lookup answers *)

Dictionary ==
    {<<"a", "a">>, <<"a", "b">>, <<"a", "c">>, <<"b", "a">>, <<"b", "b">>, <<"b", "c">>}

CandTokens == Dictionary \cup {<<"x", "x">>}

InitCand ==
    /\ doc \in {<<Tok(t, << >>)>> : t \in CandTokens}
    /\ span = [start |-> 0, end |-> 1]
    /\ masked_text = get_masked_text(doc, span, WINDOW)
    /\ suggestions \in InjSeqsUpTo(Dictionary, MaxSugg)
    /\ pc = "masked"
    /\ token = << >>
    /\ candidates = << >>
    /\ texts = << >>
    /\ scores = << >>
    /\ top = << >>
    /\ NoCorrection
    /\ NoEval

NextCand == BuildCandidates

SpecCand == InitCand /\ [][NextCand]_vars

(* re-ranking: short documents whose tokens may hold the placeholder's text *)

RankVocab == {Tok(<<"a", "b">>, << >>), Tok(MASK_TOKEN, << >>)}

RankDict == {<<"a", "b">>, <<"A", "b">>, <<"a", "c">>}

InitRank ==
    /\ doc \in SeqsUpTo(RankVocab, MaxCtxLen) \ {<< >>}
    /\ span \in SpansOf(doc)
    /\ suggestions \in InjSeqsUpTo(RankDict, MaxRankSugg)
    /\ masked_text = << >>
    /\ pc = "start"
    /\ token = << >>
    /\ candidates = << >>
    /\ texts = << >>
    /\ scores = << >>
    /\ top = << >>
    /\ NoCorrection
    /\ NoEval

NextRank == GetMaskedText \/ BuildCandidates \/ RerankAndChoose

SpecRank == InitRank /\ [][NextRank]_vars

----------------------------------------------------------------------------
(* Speliuk.correct and CorrectionPipe.__call__ *)

\* no get_masked_text / top_candidate call is recorded
NoCall ==
    /\ doc = << >>
    /\ span = << >>
    /\ masked_text = << >>
    /\ token = << >>
    /\ suggestions = << >>
    /\ candidates = << >>
    /\ texts = << >>
    /\ scores = << >>
    /\ top = << >>
    /\ pc = "idle"

\* the words of the texts given to correct()
MainWords == {<<"a", "b">>, <<"5", "a">>}

\* words of a text that holds the annotation syntax of ua_gec
MarkupWords == {<<"a", "b">>, <<"a", "{", "b", "=", ">", "c", "}", "d">>}

EntTypes == {PER, ORG, GPE, LOC}

TokenChoices(words) == [text : words, ws : BOOLEAN, ent_type : EntTypes \cup {<< >>}]

\* the documents self.nlp returns: no space after the last token, at most
\* one token that the recogniser tagged
NlpDocs(words) ==
    {d \in SeqsUpTo(TokenChoices(words), MaxTokens) :
        /\ d # << >>
        /\ ~d[Len(d)].ws
        /\ Cardinality({k \in 1..Len(d) : d[k].ent_type # << >>}) <= 1}

\* the character ranges the tagger can report: it tokenizes the text
\* itself, so a range starts at the first or second character of a token
\* of self.nlp and ends at its last or last but one
RangesOf(d) ==
    UNION {
        {[start_char |-> s, end_char |-> e] :
            s \in {TokStart(d, a), TokStart(d, a) + 1},
            e \in {TokEnd(d, b), TokEnd(d, b) - 1}}
        : a \in 0..(Len(d) - 1), b \in 0..(Len(d) - 1)}

\* error_detection_doc.ents: in text order, not overlapping
DetectedIn(d) ==
    {r \in SeqsUpTo({x \in RangesOf(d) : x.start_char < x.end_char}, MaxErrs) :
        \A k \in 1..(Len(r) - 1) : r[k].end_char <= r[k + 1].start_char}

ERROR_LABEL == "ERROR"

InitCorrect(words) ==
    /\ nlp_doc \in NlpDocs(words)
    /\ detected \in DetectedIn(nlp_doc)
    /\ error_spans = << >>
    /\ idx = 0
    /\ annotated_text = << >>
    /\ chosen = << >>
    /\ correction = << >>
    /\ cpc = "start"
    /\ caller_doc = << >>
    /\ doc_spans = << >>
    /\ speliuk_corrected = << >>
    /\ ppc = "start"

Init == InitCorrect(MainWords) /\ NoCall /\ NoEval

InitMarkup == InitCorrect(MarkupWords) /\ NoCall /\ NoEval

\* _set_error_spans, lines 142-150
ErrorSpans(d, ents) ==
    [k \in 1..Len(ents) |->
        char_span(Offsets(d), ents[k].start_char, ents[k].end_char, ERROR_LABEL)]

HasNone(spans) == \E k \in 1..Len(spans) : spans[k] = None

\* correct, lines 157-159.  A list that holds None cannot become a span
\* group: the assignment of line 151 fails (were it to pass, span.text of
\* line 192 would raise on the None).  Every way it fails ends correct()
\* without a Correction, which is what "raised" stands for
CorrectBegin ==
    /\ cpc = "start"
    /\ LET spans == ErrorSpans(nlp_doc, detected)
       IN  IF HasNone(spans)
           THEN /\ cpc' = "raised"
                /\ UNCHANGED <<error_spans, idx, annotated_text>>
           ELSE /\ error_spans' = spans
                /\ idx' = 1
                /\ annotated_text' = AnnotatedText(DocText(nlp_doc))
                /\ cpc' = "loop"
    /\ UNCHANGED <<nlp_doc, detected, chosen, correction>>
    /\ UNCHANGED <<callVars, pipeVars, evalVars>>

\* correct, lines 161-165: the span is not a valid edit
CorrectSkip ==
    /\ cpc = "loop"
    /\ idx <= Len(error_spans)
    /\ ~_valid_edit(nlp_doc, error_spans[idx])
    /\ idx' = idx + 1
    /\ UNCHANGED <<nlp_doc, detected, error_spans, annotated_text, chosen, correction, cpc>>
    /\ UNCHANGED <<callVars, pipeVars, evalVars>>

\* correct, lines 161-174: the span is a valid edit
CorrectEdit ==
    /\ cpc = "loop"
    /\ idx <= Len(error_spans)
    /\ _valid_edit(nlp_doc, error_spans[idx])
    /\ LET ent == error_spans[idx]
           start == ent.start_char
           end == ent.end_char
           error_token == SpanText(nlp_doc, ent)
           masked == get_masked_text(nlp_doc, ent, WINDOW)
       IN  \E lookup \in InjSeqsUpTo(RankDict, MaxRankSugg) :
           \E lm \in [ScoredTexts(masked, CandidateList(error_token, lookup)) -> Scores] :
              LET top_c == top_candidate(masked, error_token, lookup, lm)
              IN  IF AnnotateRaises(annotated_text, start, end)
                  THEN /\ cpc' = "raised"
                       /\ UNCHANGED <<annotated_text, chosen, idx>>
                  ELSE /\ annotated_text' = annotate(annotated_text, start, end, top_c)
                       /\ chosen' = Append(chosen,
                              [start |-> start, end |-> end, correction |-> top_c])
                       /\ idx' = idx + 1
                       /\ cpc' = "loop"
    /\ UNCHANGED <<nlp_doc, detected, error_spans, correction>>
    /\ UNCHANGED <<callVars, pipeVars, evalVars>>

\* correct, lines 176-181
CorrectReturn ==
    /\ cpc = "loop"
    /\ idx > Len(error_spans)
    /\ correction' = [corrected_text |-> get_corrected_text(annotated_text),
                      annotations |-> get_annotations(annotated_text)]
    /\ cpc' = "returned"
    /\ UNCHANGED <<nlp_doc, detected, error_spans, idx, annotated_text, chosen>>
    /\ UNCHANGED <<callVars, pipeVars, evalVars>>

\* the tokens of a tokenizer that splits at spaces only
RECURSIVE WhitespaceOffsets(_, _, _)
WhitespaceOffsets(d, k, from) ==
    IF k > Len(d) THEN << >>
    ELSE IF d[k].ws \/ k = Len(d)
         THEN <<[start_char |-> from, end_char |-> TokEnd(d, k - 1)]>>
              \o WhitespaceOffsets(d, k + 1, TokEnd(d, k - 1) + 1)
         ELSE WhitespaceOffsets(d, k + 1, from)

\* the caller's document holds the same text; its tokens are those of
\* self.nlp or those of a tokenizer that splits at spaces only
CallerDocs(d) == {Offsets(d), WhitespaceOffsets(d, 1, 0)}

\* Annotation.top_suggestion
top_suggestion(a) == IF a.suggestions = << >> THEN None ELSE a.suggestions[1]

\* CorrectionPipe.__call__, lines 245-249
PipeSpans(offs, annotations) ==
    [k \in 1..Len(annotations) |->
        char_span(offs, annotations[k].start, annotations[k].end,
                  top_suggestion(annotations[k]))]

\* CorrectionPipe.__call__, lines 244-252, after correct() returned.  As in
\* _set_error_spans, a list that holds None cannot become a span group
PipeFinish ==
    /\ cpc = "returned"
    /\ ppc = "start"
    /\ \E offs \in CallerDocs(nlp_doc) :
          /\ caller_doc' = offs
          /\ speliuk_corrected' = correction.corrected_text
          /\ LET spans == PipeSpans(offs, correction.annotations)
             IN  IF HasNone(spans)
                 THEN /\ ppc' = "raised"
                      /\ UNCHANGED doc_spans
                 ELSE /\ doc_spans' = spans
                      /\ ppc' = "done"
    /\ UNCHANGED <<callVars, correctVars, evalVars>>

\* CorrectionPipe.__call__, line 243: correct() raised
PipeRaise ==
    /\ cpc = "raised"
    /\ ppc = "start"
    /\ ppc' = "raised"
    /\ UNCHANGED <<caller_doc, doc_spans, speliuk_corrected>>
    /\ UNCHANGED <<callVars, correctVars, evalVars>>

Next ==
    \/ CorrectBegin
    \/ CorrectSkip
    \/ CorrectEdit
    \/ CorrectReturn
    \/ PipeFinish
    \/ PipeRaise

Spec == Init /\ [][Next]_vars

SpecMarkup == InitMarkup /\ [][Next]_vars

----------------------------------------------------------------------------
(* scripts/evaluate.py *)

ArgWords == {"pred.txt", "gold.m2", "--m2", "--no-tokenize"}

\* argparse takes an argument that starts with "-" for an option
StartsWithDash(a) == a \in {"--m2", "--no-tokenize"}

NoValue == "<none>"

\* ArgumentParser.parse_known_args for the two arguments main() declares:
\* the positional corrected and the option --m2 with one value.  An
\* option the parser does not know and a second positional are left over.
RECURSIVE ParseKnown(_, _, _)
ParseKnown(av, k, ns) ==
    IF k > Len(av) THEN ns
    ELSE IF av[k] = "--m2"
         THEN IF k + 1 <= Len(av) /\ ~StartsWithDash(av[k + 1])
              THEN ParseKnown(av, k + 2, [ns EXCEPT !.m2 = av[k + 1]])
              ELSE [ns EXCEPT !.error = TRUE]
    ELSE IF StartsWithDash(av[k])
         THEN ParseKnown(av, k + 1, [ns EXCEPT !.extras = Append(@, av[k])])
    ELSE IF ns.corrected = NoValue
         THEN ParseKnown(av, k + 1, [ns EXCEPT !.corrected = av[k]])
         ELSE ParseKnown(av, k + 1, [ns EXCEPT !.extras = Append(@, av[k])])

\* parser.parse_args(): left-over arguments and missing required ones are
\* errors (the parser prints the usage and exits with status 2)
parse_args(av) ==
    LET ns == ParseKnown(av, 1,
                  [corrected |-> NoValue, m2 |-> NoValue, extras |-> << >>, error |-> FALSE])
    IN  [ns EXCEPT !.error =
            \/ ns.error
            \/ ns.extras # << >>
            \/ ns.corrected = NoValue
            \/ ns.m2 = NoValue]

SOURCE_PATH == "tmp/unlp.source.tok"
M2_TARGET == "tmp/unlp.target.m2"

InitEval ==
    /\ argv \in SeqsUpTo(ArgWords, MaxArgs)
    /\ args = << >>
    /\ ran = << >>
    /\ epc = "start"
    /\ NoCall
    /\ NoCorrection

\* main, lines 22-26
ParseArgs ==
    /\ epc = "start"
    /\ LET ns == parse_args(argv)
       IN  IF ns.error
           THEN /\ epc' = "usage_error"
                /\ UNCHANGED args
           ELSE /\ args' = [corrected |-> ns.corrected, m2 |-> ns.m2]
                /\ epc' = "parsed"
    /\ UNCHANGED <<argv, ran>>
    /\ UNCHANGED <<callVars, correctVars, pipeVars>>

\* main, lines 27-36: open(args.m2) raises when the file cannot be read
ExtractSource ==
    /\ epc = "parsed"
    /\ \E readable \in BOOLEAN :
          epc' = IF readable THEN "extracted" ELSE "io_error"
    /\ UNCHANGED <<argv, args, ran>>
    /\ UNCHANGED <<callVars, correctVars, pipeVars>>

\* main, lines 38-41: check=True raises when errant_parallel fails
Align ==
    /\ epc = "extracted"
    /\ ran' = Append(ran, <<"errant_parallel", "-orig", SOURCE_PATH,
                            "-cor", args.corrected, "-out", M2_TARGET>>)
    /\ \E status \in {0, 1} :
          epc' = IF status = 0 THEN "aligned" ELSE "align_error"
    /\ UNCHANGED <<argv, args>>
    /\ UNCHANGED <<callVars, correctVars, pipeVars>>

\* main, lines 43-45
Evaluate ==
    /\ epc = "aligned"
    /\ ran' = ran \o
          << <<"errant_compare", "-hyp", M2_TARGET, "-ref", args.m2>>,
             <<"errant_compare", "-hyp", M2_TARGET, "-ref", args.m2, "-ds", "-cat", "3">> >>
    /\ epc' = "done"
    /\ UNCHANGED <<argv, args>>
    /\ UNCHANGED <<callVars, correctVars, pipeVars>>

NextEval == ParseArgs \/ ExtractSource \/ Align \/ Evaluate

SpecEval == InitEval /\ [][NextEval]_vars

----------------------------------------------------------------------------
(* C4: get_masked_text returns the min(5, span.start) tokens immediately  *)
(* left of the span, then exactly one placeholder, then the               *)
(* min(5, len(doc) - span.end) tokens immediately right of it, in         *)
(* document order; no token of the span appears and the window is clamped *)
(* to the document.                                                       *)

LeftCount == Min(WINDOW, span.start)
RightCount == Min(WINDOW, Len(doc) - span.end)

ExpectedWindow ==
    [i \in 1..LeftCount |-> doc[span.start - LeftCount + i].text]
    \o <<MASK_TOKEN>>
    \o [i \in 1..RightCount |-> doc[span.end + i].text]

C4_MaskedWindow ==
    pc = "masked" => Words(masked_text) = ExpectedWindow

C4_Witness ==
    /\ pc = "masked"
    /\ span.start > WINDOW
    /\ Len(doc) - span.end < WINDOW
    /\ Len(Words(masked_text)) = WINDOW + 1 + (Len(doc) - span.end)

----------------------------------------------------------------------------
(* C1: top_candidate returns a candidate whose score is the maximum over  *)
(* all scored candidates; it returns the original token whenever the      *)
(* original token's score equals that maximum, also when a dictionary     *)
(* suggestion with the same score is ranked before it; it returns another *)
(* candidate only when that candidate's score is strictly greater than    *)
(* the original token's.                                                  *)

IsMaxScore(c) == \A d \in Range(candidates) : scores[d] <= scores[c]

C1_TopCandidate ==
    pc = "chosen" =>
        /\ top \in Range(candidates)
        /\ IsMaxScore(top)
        /\ IsMaxScore(token) => top = token
        /\ top # token => scores[top] > scores[token]

C1_Witness ==
    /\ pc = "chosen"
    /\ Len(candidates) >= 2
    /\ candidates[1] # token
    /\ scores[candidates[1]] = scores[token]
    /\ IsMaxScore(token)
    /\ top = token

----------------------------------------------------------------------------
(* C3: the candidate list handed to the re-ranker contains the original   *)
(* token exactly once and at most 5 dictionary suggestions, the first 5   *)
(* in lookup order; it has between 1 and 6 entries.                       *)

KeptSuggestions == Min(5, Len(suggestions))

----------------------------------------------------------------------------
(* C5: the text given to the language model is the lower-cased masked     *)
(* context in which the span's placeholder, and only it, is replaced by   *)
(* the candidate: every context token is scored as it appears in the      *)
(* document, also when it is, or contains, the string "<mask>".           *)

OnlyPlaceholderReplaced(d, sp, c) ==
    Join(TokenTexts(PySlice(d, left_start(sp, WINDOW), sp.start)), SPACE)
    \o SPACE \o c \o SPACE
    \o Join(TokenTexts(PySlice(d, sp.end, sp.end + WINDOW)), SPACE)

C5_OnlyPlaceholderReplaced ==
    pc = "chosen" =>
        \A c \in Range(candidates) :
            texts[c] = Lower(OnlyPlaceholderReplaced(doc, span, c))

----------------------------------------------------------------------------
(* Shared by the claims about correct() *)

InputText == DocText(nlp_doc)

\* the annotations of the returned Correction that carry a span's offsets
AnnotationsOf(sp) ==
    {k \in 1..Len(correction.annotations) :
        /\ correction.annotations[k].start = sp.start_char
        /\ correction.annotations[k].end = sp.end_char}

\* what top_candidate returned for a span, when it was called for it
ChosenFor(sp) ==
    {c \in Range(chosen) : c.start = sp.start_char /\ c.end = sp.end_char}

Surviving == {k \in 1..Len(error_spans) : _valid_edit(nlp_doc, error_spans[k])}

----------------------------------------------------------------------------
(* C2: correct() records no annotation for a detected span whose text     *)
(* starts with a digit, nor for one tagged as a person, an organization   *)
(* or a geopolitical entity, whatever its length in tokens and whichever  *)
(* of its tokens carries the tag; every other detected span survives.     *)

TaggedAsName(e) == IsPrefix(PER, e) \/ e = ORG \/ e = GPE

MustBeSuppressed(sp) ==
    \/ LET text == SpanText(nlp_doc, sp) IN text # << >> /\ IsDigit(text[1])
    \/ \E k \in (sp.start + 1)..sp.end : TaggedAsName(nlp_doc[k].ent_type)

C2_Suppression ==
    cpc = "returned" =>
        \A k \in 1..Len(error_spans) :
            IF MustBeSuppressed(error_spans[k])
            THEN AnnotationsOf(error_spans[k]) = {}
            ELSE AnnotationsOf(error_spans[k]) # {}

----------------------------------------------------------------------------
(* C6: after correct(text) returns, the annotations are in one-to-one     *)
(* correspondence with the surviving detected spans: each surviving span  *)
(* has exactly one annotation with its start and end offsets, its text    *)
(* and the chosen candidate (also when that is the text itself), and      *)
(* there is no other annotation.                                          *)

IsAnnotationOf(a, sp) ==
    /\ a.start = sp.start_char
    /\ a.end = sp.end_char
    /\ a.source_text = SpanText(nlp_doc, sp)
    /\ \E c \in ChosenFor(sp) : a.suggestions = <<c.correction>>

C6_OneAnnotationPerSurvivor ==
    cpc = "returned" =>
        /\ Len(correction.annotations) = Cardinality(Surviving)
        /\ \A k \in Surviving :
              Cardinality({j \in 1..Len(correction.annotations) :
                  IsAnnotationOf(correction.annotations[j], error_spans[k])}) = 1
        /\ \A j \in 1..Len(correction.annotations) :
              \E k \in Surviving :
                  IsAnnotationOf(correction.annotations[j], error_spans[k])

----------------------------------------------------------------------------
(* C7: the corrected text is the input text with each surviving span's    *)
(* character range replaced by its chosen correction and every other      *)
(* character unchanged; it is the input text when no span survives or     *)
(* the original is chosen for every surviving span.                       *)

\* text from character pos (0-based) on, with the ranges of edits (in text
\* order) replaced
RECURSIVE ReplaceRanges(_, _, _)
ReplaceRanges(text, pos, edits) ==
    IF edits = << >> THEN PySlice(text, pos, Len(text))
    ELSE PySlice(text, pos, edits[1].start) \o edits[1].correction
         \o ReplaceRanges(text, edits[1].end, Tail(edits))

C7_CorrectedText ==
    cpc = "returned" =>
        /\ Len(chosen) = Cardinality(Surviving)
        /\ \A k \in Surviving : ChosenFor(error_spans[k]) # {}
        /\ correction.corrected_text = ReplaceRanges(InputText, 0, chosen)
        /\ (\A c \in Range(chosen) : c.correction = PySlice(InputText, c.start, c.end))
              => correction.corrected_text = InputText

----------------------------------------------------------------------------
(* C9: for every text and every set of character ranges the tagger        *)
(* reports, correct() returns a Correction in which each range is either  *)
(* suppressed or annotated; no range makes it raise, also one whose       *)
(* offsets are not token boundaries of self.nlp's tokenization.           *)

C9_NoRangeRaises ==
    /\ cpc # "raised"
    /\ cpc = "returned" =>
          /\ Len(error_spans) = Len(detected)
          /\ \A k \in 1..Len(error_spans) :
                \/ ~_valid_edit(nlp_doc, error_spans[k])
                \/ AnnotationsOf(error_spans[k]) # {}

----------------------------------------------------------------------------
(* C10: after the component is applied to a document,                     *)
(* doc._.speliuk_corrected is the corrected text of correct(doc.text) and *)
(* doc.spans["speliuk_errors"] holds one span per annotation, in          *)
(* annotation order, with the annotation's offsets and its top suggestion *)
(* as label, whatever the tokenization of the caller's document.          *)

C10_PipeSpans ==
    (cpc = "returned" /\ ppc # "start") =>
        /\ ppc = "done"
        /\ speliuk_corrected = correction.corrected_text
        /\ Len(doc_spans) = Len(correction.annotations)
        /\ \A k \in 1..Len(doc_spans) :
              /\ doc_spans[k].start_char = correction.annotations[k].start
              /\ doc_spans[k].end_char = correction.annotations[k].end
              /\ doc_spans[k].label = top_suggestion(correction.annotations[k])

----------------------------------------------------------------------------
(* C8: the evaluation script accepts the command line of its usage text,  *)
(* evaluate.py <corrected> [--no-tokenize] --m2 <path_to_m2>: with the    *)
(* optional --no-tokenize it goes on to source extraction, alignment and  *)
(* scoring and does not end in an argument-parsing error.                 *)

DocumentedUsage ==
    {<<"pred.txt", "--m2", "gold.m2">>,
     <<"pred.txt", "--no-tokenize", "--m2", "gold.m2">>}

C8_DocumentedUsageAccepted ==
    (argv \in DocumentedUsage /\ epc # "start") =>
        /\ epc # "usage_error"
        /\ args = [corrected |-> argv[1], m2 |-> argv[Len(argv)]]

====
